---- MODULE Spec2Model ----
(***************************************************************************)
(* Model of package types (Slot and Epoch, src/epoch.go and src/types.go). *)
(* src/types.go holds an earlier copy of Mul, Div, Add and Sub with the    *)
(* same bodies; the definitions follow src/epoch.go, lines 97 to 341.      *)
(*                                                                         *)
(* Slot and Epoch are Go uint64 newtypes.  TLC's integers are 32 bits      *)
(* wide, so a uint64 is modelled as an unsigned word of U64Bytes bytes of  *)
(* ByteBits bits each: the arithmetic is the code's arithmetic modulo      *)
(* U64Mod, and the SSZ encoding is the code's 8-byte encoding with bytes   *)
(* of ByteBits bits.  ByteBits is 8 in the program.                        *)
(*                                                                         *)
(* The state is a caller's variable obj, of type typ (Slot or Epoch), and  *)
(* the record ret of the last call the caller made.                        *)
(***************************************************************************)
EXTENDS Integers, Sequences, FiniteSets, TLC

VARIABLES typ, obj, ret

vars == <<typ, obj, ret>>

(***************************************************************************)
(* Bounds of the model.                                                    *)
(***************************************************************************)
\* Bits of one byte (8 in the program).
ByteBits == 1

\* The sampled uint64 inputs lie within Near of 0 and of the largest value.
Near == 2

(***************************************************************************)
(* uint64                                                                  *)
(***************************************************************************)
\* A uint64 has 8 bytes.
U64Bytes == 8

ByteMod == 2 ^ ByteBits

U64Mod == ByteMod ^ U64Bytes

U64Max == U64Mod - 1

U64HalfMod == ByteMod ^ (U64Bytes \div 2)

\* The inputs the caller draws from: the values next to 0 and to the largest
\* value, the top bit, and the values of the documented scenario.
U64Samples == (0 .. Near) \cup ((U64Max - Near) .. U64Max) \cup {U64Mod \div 2, 50, 100, 150}

\* Go's a + b on uint64: the sum modulo 2^64.
U64Add(a, b) == (a + b) % U64Mod

\* Go's a - b on uint64: the difference modulo 2^64.
U64Sub(a, b) == (a - b) % U64Mod

\* Go's a * b on uint64: the product modulo 2^64.  The product is taken per
\* half of b so that no intermediate value leaves the checker's integers.
U64Mul(a, b) == (((a * (b \div U64HalfMod)) % U64Mod) * U64HalfMod + a * (b % U64HalfMod)) % U64Mod

\* Go's a / b on uint64, b # 0: the truncated quotient.
U64Div(a, b) == a \div b

\* Go's a % b on uint64, b # 0: the remainder.
U64Rem(a, b) == a % b

(***************************************************************************)
(* The outcome of a call: the receiver after it (self), and what the call  *)
(* gave back: a value, bytes, an error value, or a panic.                  *)
(***************************************************************************)
NoBytes == <<>>

Outcome(self, kind, val, bytes, msg, want, got) ==
  [self |-> self, kind |-> kind, val |-> val, bytes |-> bytes, msg |-> msg, want |-> want, got |-> got]

\* return v
Value(self, v) == Outcome(self, "value", v, NoBytes, "", 0, 0)

\* return b, nil
Bytes(self, b) == Outcome(self, "bytes", 0, b, "", 0, 0)

\* return nil
Nil(self) == Outcome(self, "nil", 0, NoBytes, "", 0, 0)

\* panic(msg): the call is abandoned.
Panic(self, msg) == Outcome(self, "panic", 0, NoBytes, msg, 0, 0)

\* return fmt.Errorf("expected buffer of length %d received %d", want, got)
Errorf(self, want, got) ==
  Outcome(self, "error", 0, NoBytes, "expected buffer of length %d received %d", want, got)

\* The run-time panic of Go's integer division and remainder by zero.
RuntimeDivideError == "runtime error: integer divide by zero"

(***************************************************************************)
(* fastssz: the two library calls of the encoding.                         *)
(***************************************************************************)
\* fssz.MarshalUint64(dst, x): dst followed by the 8 bytes of x, lowest first.
MarshalUint64(dst, x) == dst \o [i \in 1 .. U64Bytes |-> (x \div (ByteMod ^ (i - 1))) % ByteMod]

RECURSIVE LittleEndian(_, _)
\* The first n bytes of buf read as a number, lowest byte first.
LittleEndian(buf, n) == IF n = 0 THEN 0 ELSE buf[n] * (ByteMod ^ (n - 1)) + LittleEndian(buf, n - 1)

\* fssz.UnmarshallUint64(buf): binary.LittleEndian.Uint64(buf).
UnmarshallUint64(buf) == LittleEndian(buf, U64Bytes)

\* The 32-byte root of one uint64 leaf: hh.PutUint64 pads the 8 bytes with zeros
\* to the chunk width, and the root of a single chunk is the chunk.
HashWithDefaultHasher(x) == MarshalUint64(<<>>, x) \o [i \in 1 .. 24 |-> 0]

\* Go's / and % panic at run time when the divisor is 0.
GoQuo(self, a, b) == IF b = 0 THEN Panic(self, RuntimeDivideError) ELSE Value(self, U64Div(a, b))

GoRem(self, a, b) == IF b = 0 THEN Panic(self, RuntimeDivideError) ELSE Value(self, U64Rem(a, b))

(***************************************************************************)
(* Slot                                                                    *)
(***************************************************************************)
ToSlot(x) == x

Slot_Uint64(sv) == Value(sv, sv)

\* Slot.Mul saturating at the largest value instead of wrapping.
Slot_Mul_Saturating(sv, x) ==
  Value(sv, IF x = 0 \/ sv <= U64Max \div x THEN sv * x ELSE U64Max)

Slot_Mul(sv, x) == Value(sv, U64Mul(sv, x))

Slot_MulSlot(sv, x) == Value(sv, U64Mul(sv, x))

Slot_MulEpoch(sv, x) == Value(sv, U64Mul(sv, x))

Slot_Div(sv, x) == IF x = 0 THEN Panic(sv, "divbyzero") ELSE GoQuo(sv, sv, x)

Slot_DivSlot(sv, x) == IF x = 0 THEN Panic(sv, "divbyzero") ELSE GoQuo(sv, sv, x)

Slot_DivEpoch(sv, x) == IF x = 0 THEN Panic(sv, "divbyzero") ELSE GoQuo(sv, sv, x)

Slot_Add(sv, x) == Value(sv, U64Add(sv, x))

Slot_AddSlot(sv, x) == Value(sv, U64Add(sv, x))

Slot_AddEpoch(sv, x) == Value(sv, U64Add(sv, x))

\* Slot.Sub without its underflow guard.
Slot_Sub_NoGuard(sv, x) == Value(sv, U64Sub(sv, x))

Slot_Sub(sv, x) == IF sv < x THEN Panic(sv, "underflow") ELSE Value(sv, U64Sub(sv, x))

Slot_SubSlot(sv, x) == IF sv < x THEN Panic(sv, "underflow") ELSE Value(sv, U64Sub(sv, x))

Slot_SubEpoch(sv, x) == IF sv < x THEN Panic(sv, "underflow") ELSE Value(sv, U64Sub(sv, x))

\* Slot.Mod with its operands exchanged.
Slot_Mod_Swapped(sv, x) == GoRem(sv, x, sv)

Slot_Mod(sv, x) == GoRem(sv, sv, x)

Slot_ModSlot(sv, x) == GoRem(sv, sv, x)

Slot_ModEpoch(sv, x) == GoRem(sv, sv, x)

Slot_HashTreeRoot(sv) == Bytes(sv, HashWithDefaultHasher(sv))

\* hh.PutUint64(s.Uint64()); return nil.  The bytes are what the hasher received.
Slot_HashTreeRootWith(sv) == Bytes(sv, MarshalUint64(<<>>, Slot_Uint64(sv).val))

Slot_SizeSSZ == 8

\* Slot.UnmarshalSSZ refusing only the buffers that are too short.
Slot_UnmarshalSSZ_AcceptLonger(sv, buf) ==
  IF Len(buf) < Slot_SizeSSZ
  THEN Errorf(sv, Slot_SizeSSZ, Len(buf))
  ELSE Nil(UnmarshallUint64(buf))

Slot_UnmarshalSSZ(sv, buf) ==
  IF Len(buf) # Slot_SizeSSZ
  THEN Errorf(sv, Slot_SizeSSZ, Len(buf))
  ELSE Nil(UnmarshallUint64(buf))

\* Slot.MarshalSSZ appending to a buffer allocated with length 8 instead of an empty one.
Slot_MarshalSSZ_Preallocated(sv) == Bytes(sv, MarshalUint64([i \in 1 .. 8 |-> 0], Slot_Uint64(sv).val))

Slot_MarshalSSZ(sv) == Bytes(sv, MarshalUint64(<<>>, Slot_Uint64(sv).val))

Slot_MarshalSSZTo(sv, dst) ==
  LET marshalled == Slot_MarshalSSZ(sv)
  IN  IF marshalled.kind # "bytes" THEN marshalled ELSE Bytes(marshalled.self, dst \o marshalled.bytes)

(***************************************************************************)
(* Epoch                                                                   *)
(***************************************************************************)
ToEpoch(x) == x

Epoch_Uint64(ev) == Value(ev, ev)

Epoch_Mul(ev, x) == Value(ev, U64Mul(ev, x))

\* Epoch.Div without its zero guard.
Epoch_Div_NoGuard(ev, x) == GoQuo(ev, ev, x)

Epoch_Div(ev, x) == IF x = 0 THEN Panic(ev, "divbyzero") ELSE GoQuo(ev, ev, x)

\* Epoch.Add saturating at the largest value instead of wrapping.
Epoch_Add_Saturating(ev, x) == Value(ev, IF ev + x > U64Max THEN U64Max ELSE ev + x)

Epoch_Add(ev, x) == Value(ev, U64Add(ev, x))

Epoch_Sub(ev, x) == IF ev < x THEN Panic(ev, "underflow") ELSE Value(ev, U64Sub(ev, x))

Epoch_Mod(ev, x) == GoRem(ev, ev, x)

Epoch_HashTreeRoot(ev) == Bytes(ev, HashWithDefaultHasher(ev))

Epoch_HashTreeRootWith(ev) == Bytes(ev, MarshalUint64(<<>>, Epoch_Uint64(ev).val))

Epoch_SizeSSZ == 8

\* Epoch.UnmarshalSSZ clearing the receiver before it checks the length.
Epoch_UnmarshalSSZ_ClearFirst(ev, buf) ==
  IF Len(buf) # Epoch_SizeSSZ
  THEN Errorf(0, Epoch_SizeSSZ, Len(buf))
  ELSE Nil(UnmarshallUint64(buf))

Epoch_UnmarshalSSZ(ev, buf) ==
  IF Len(buf) # Epoch_SizeSSZ
  THEN Errorf(ev, Epoch_SizeSSZ, Len(buf))
  ELSE Nil(UnmarshallUint64(buf))

Epoch_MarshalSSZ(ev) == Bytes(ev, MarshalUint64(<<>>, Epoch_Uint64(ev).val))

Epoch_MarshalSSZTo(ev, dst) ==
  LET marshalled == Epoch_MarshalSSZ(ev)
  IN  IF marshalled.kind # "bytes" THEN marshalled ELSE Bytes(marshalled.self, dst \o marshalled.bytes)

(***************************************************************************)
(* The caller.                                                             *)
(***************************************************************************)
\* The arithmetic methods that take a uint64.
PlainOps == {"Mul", "Div", "Add", "Sub", "Mod"}

\* The methods that encode the receiver.
MarshalOps == {"MarshalSSZ", "MarshalSSZTo"}

Fill(n, b) == [i \in 1 .. n |-> b]

Unit(n, k) == [i \in 1 .. n |-> IF i = k THEN 1 ELSE 0]

Ramp(n) == [i \in 1 .. n |-> i % ByteMod]

BufLens == {0, U64Bytes - 1, U64Bytes, U64Bytes + 1}

\* The buffers the caller decodes: empty, one byte short, exact and one byte long.
BufSamples ==
  UNION {{Fill(n, 0), Fill(n, ByteMod - 1), Ramp(n)} \cup {Unit(n, k) : k \in {1, 2, n} \cap (1 .. n)} : n \in BufLens}

\* The destinations the caller appends an encoding to.
DstSamples == {<<>>, <<1>>}

NoCall ==
  [typ |-> "", op |-> "", recv |-> 0, arg |-> 0, buf |-> NoBytes, prev |-> "", orig |-> 0, out |-> Nil(0)]

\* A call on the caller's variable obj, when it has type t.
OnVar(t) == IF typ = t THEN {[recv |-> obj, onVar |-> TRUE, prev |-> "", orig |-> obj]} ELSE {}

\* A call chained on the value the last call returned, as in s.Add(x).Sub(x).
Chained(t) ==
  IF ret.typ = t /\ ret.prev = "" /\ ret.op \in PlainOps /\ ret.out.kind = "value"
  THEN {[recv |-> ret.out.val, onVar |-> FALSE, prev |-> ret.op, orig |-> ret.recv]}
  ELSE {}

\* A chained call passes the argument of the call before it.
Args(c) == IF c.onVar THEN U64Samples ELSE {ret.arg}

\* A decode of the bytes the last call encoded, into another variable of type t.
Fresh(t) ==
  IF ret.typ = t /\ ret.op \in MarshalOps /\ ret.out.kind = "bytes"
  THEN {[recv |-> r, onVar |-> FALSE, prev |-> ret.op, orig |-> ret.recv] : r \in U64Samples}
  ELSE {}

Bufs(c) == IF c.onVar THEN BufSamples ELSE {ret.out.bytes}

\* The call is made and recorded; a method called on obj leaves obj as the call left
\* its receiver.
Do(t, op, c, arg, buf, out) ==
  /\ ret' = [typ |-> t, op |-> op, recv |-> c.recv, arg |-> arg, buf |-> buf,
             prev |-> c.prev, orig |-> c.orig, out |-> out]
  /\ obj' = IF c.onVar THEN out.self ELSE obj
  /\ typ' = typ

Init ==
  /\ typ \in {"Slot", "Epoch"}
  /\ obj = 0
  /\ ret = NoCall

\* obj := ToSlot(x)
NewSlot ==
  \E x \in U64Samples :
    /\ ret' = [typ |-> "Slot", op |-> "ToSlot", recv |-> 0, arg |-> x, buf |-> NoBytes,
               prev |-> "", orig |-> 0, out |-> Value(ToSlot(x), ToSlot(x))]
    /\ obj' = ToSlot(x)
    /\ typ' = "Slot"

\* obj := ToEpoch(x)
NewEpoch ==
  \E x \in U64Samples :
    /\ ret' = [typ |-> "Epoch", op |-> "ToEpoch", recv |-> 0, arg |-> x, buf |-> NoBytes,
               prev |-> "", orig |-> 0, out |-> Value(ToEpoch(x), ToEpoch(x))]
    /\ obj' = ToEpoch(x)
    /\ typ' = "Epoch"

SlotUint64 == \E c \in OnVar("Slot") : Do("Slot", "Uint64", c, 0, NoBytes, Slot_Uint64(c.recv))

SlotMul == \E c \in OnVar("Slot") \cup Chained("Slot") : \E x \in Args(c) : Do("Slot", "Mul", c, x, NoBytes, Slot_Mul(c.recv, x))

SlotMulSlot == \E c \in OnVar("Slot") : \E x \in U64Samples : Do("Slot", "MulSlot", c, x, NoBytes, Slot_MulSlot(c.recv, ToSlot(x)))

SlotMulEpoch == \E c \in OnVar("Slot") : \E x \in U64Samples : Do("Slot", "MulEpoch", c, x, NoBytes, Slot_MulEpoch(c.recv, ToEpoch(x)))

SlotDiv == \E c \in OnVar("Slot") \cup Chained("Slot") : \E x \in Args(c) : Do("Slot", "Div", c, x, NoBytes, Slot_Div(c.recv, x))

SlotDivSlot == \E c \in OnVar("Slot") : \E x \in U64Samples : Do("Slot", "DivSlot", c, x, NoBytes, Slot_DivSlot(c.recv, ToSlot(x)))

SlotDivEpoch == \E c \in OnVar("Slot") : \E x \in U64Samples : Do("Slot", "DivEpoch", c, x, NoBytes, Slot_DivEpoch(c.recv, ToEpoch(x)))

SlotAdd == \E c \in OnVar("Slot") \cup Chained("Slot") : \E x \in Args(c) : Do("Slot", "Add", c, x, NoBytes, Slot_Add(c.recv, x))

SlotAddSlot == \E c \in OnVar("Slot") : \E x \in U64Samples : Do("Slot", "AddSlot", c, x, NoBytes, Slot_AddSlot(c.recv, ToSlot(x)))

SlotAddEpoch == \E c \in OnVar("Slot") : \E x \in U64Samples : Do("Slot", "AddEpoch", c, x, NoBytes, Slot_AddEpoch(c.recv, ToEpoch(x)))

SlotSub == \E c \in OnVar("Slot") \cup Chained("Slot") : \E x \in Args(c) : Do("Slot", "Sub", c, x, NoBytes, Slot_Sub(c.recv, x))

SlotSubSlot == \E c \in OnVar("Slot") : \E x \in U64Samples : Do("Slot", "SubSlot", c, x, NoBytes, Slot_SubSlot(c.recv, ToSlot(x)))

SlotSubEpoch == \E c \in OnVar("Slot") : \E x \in U64Samples : Do("Slot", "SubEpoch", c, x, NoBytes, Slot_SubEpoch(c.recv, ToEpoch(x)))

SlotMod == \E c \in OnVar("Slot") \cup Chained("Slot") : \E x \in Args(c) : Do("Slot", "Mod", c, x, NoBytes, Slot_Mod(c.recv, x))

SlotModSlot == \E c \in OnVar("Slot") : \E x \in U64Samples : Do("Slot", "ModSlot", c, x, NoBytes, Slot_ModSlot(c.recv, ToSlot(x)))

SlotModEpoch == \E c \in OnVar("Slot") : \E x \in U64Samples : Do("Slot", "ModEpoch", c, x, NoBytes, Slot_ModEpoch(c.recv, ToEpoch(x)))

SlotHashTreeRoot == \E c \in OnVar("Slot") : Do("Slot", "HashTreeRoot", c, 0, NoBytes, Slot_HashTreeRoot(c.recv))

SlotHashTreeRootWith == \E c \in OnVar("Slot") : Do("Slot", "HashTreeRootWith", c, 0, NoBytes, Slot_HashTreeRootWith(c.recv))

SlotUnmarshalSSZ == \E c \in OnVar("Slot") \cup Fresh("Slot") : \E buf \in Bufs(c) : Do("Slot", "UnmarshalSSZ", c, 0, buf, Slot_UnmarshalSSZ(c.recv, buf))

SlotMarshalSSZTo == \E c \in OnVar("Slot") : \E dst \in DstSamples : Do("Slot", "MarshalSSZTo", c, 0, dst, Slot_MarshalSSZTo(c.recv, dst))

SlotMarshalSSZ == \E c \in OnVar("Slot") : Do("Slot", "MarshalSSZ", c, 0, NoBytes, Slot_MarshalSSZ(c.recv))

SlotSizeSSZ == \E c \in OnVar("Slot") : Do("Slot", "SizeSSZ", c, 0, NoBytes, Value(c.recv, Slot_SizeSSZ))

EpochUint64 == \E c \in OnVar("Epoch") : Do("Epoch", "Uint64", c, 0, NoBytes, Epoch_Uint64(c.recv))

EpochMul == \E c \in OnVar("Epoch") \cup Chained("Epoch") : \E x \in Args(c) : Do("Epoch", "Mul", c, x, NoBytes, Epoch_Mul(c.recv, x))

EpochDiv == \E c \in OnVar("Epoch") \cup Chained("Epoch") : \E x \in Args(c) : Do("Epoch", "Div", c, x, NoBytes, Epoch_Div(c.recv, x))

EpochAdd == \E c \in OnVar("Epoch") \cup Chained("Epoch") : \E x \in Args(c) : Do("Epoch", "Add", c, x, NoBytes, Epoch_Add(c.recv, x))

EpochSub == \E c \in OnVar("Epoch") \cup Chained("Epoch") : \E x \in Args(c) : Do("Epoch", "Sub", c, x, NoBytes, Epoch_Sub(c.recv, x))

EpochMod == \E c \in OnVar("Epoch") \cup Chained("Epoch") : \E x \in Args(c) : Do("Epoch", "Mod", c, x, NoBytes, Epoch_Mod(c.recv, x))

EpochHashTreeRoot == \E c \in OnVar("Epoch") : Do("Epoch", "HashTreeRoot", c, 0, NoBytes, Epoch_HashTreeRoot(c.recv))

EpochHashTreeRootWith == \E c \in OnVar("Epoch") : Do("Epoch", "HashTreeRootWith", c, 0, NoBytes, Epoch_HashTreeRootWith(c.recv))

EpochUnmarshalSSZ == \E c \in OnVar("Epoch") \cup Fresh("Epoch") : \E buf \in Bufs(c) : Do("Epoch", "UnmarshalSSZ", c, 0, buf, Epoch_UnmarshalSSZ(c.recv, buf))

EpochMarshalSSZTo == \E c \in OnVar("Epoch") : \E dst \in DstSamples : Do("Epoch", "MarshalSSZTo", c, 0, dst, Epoch_MarshalSSZTo(c.recv, dst))

EpochMarshalSSZ == \E c \in OnVar("Epoch") : Do("Epoch", "MarshalSSZ", c, 0, NoBytes, Epoch_MarshalSSZ(c.recv))

EpochSizeSSZ == \E c \in OnVar("Epoch") : Do("Epoch", "SizeSSZ", c, 0, NoBytes, Value(c.recv, Epoch_SizeSSZ))

Next ==
  \/ NewSlot \/ NewEpoch
  \/ SlotUint64
  \/ SlotMul \/ SlotMulSlot \/ SlotMulEpoch
  \/ SlotDiv \/ SlotDivSlot \/ SlotDivEpoch
  \/ SlotAdd \/ SlotAddSlot \/ SlotAddEpoch
  \/ SlotSub \/ SlotSubSlot \/ SlotSubEpoch
  \/ SlotMod \/ SlotModSlot \/ SlotModEpoch
  \/ SlotHashTreeRoot \/ SlotHashTreeRootWith
  \/ SlotUnmarshalSSZ \/ SlotMarshalSSZTo \/ SlotMarshalSSZ \/ SlotSizeSSZ
  \/ EpochUint64
  \/ EpochMul \/ EpochDiv \/ EpochAdd \/ EpochSub \/ EpochMod
  \/ EpochHashTreeRoot \/ EpochHashTreeRootWith
  \/ EpochUnmarshalSSZ \/ EpochMarshalSSZTo \/ EpochMarshalSSZ \/ EpochSizeSSZ

Spec == Init /\ [][Next]_vars

(***************************************************************************)
(* The claims.  Each is a predicate on the record of the last call:        *)
(* ret.recv is the receiver before the call, ret.out.self the receiver     *)
(* after it, ret.arg and ret.buf the arguments, ret.out what was returned. *)
(* For a chained call ret.prev names the call before it and ret.orig that  *)
(* call's receiver.                                                        *)
(***************************************************************************)
MulOps == {"Mul", "MulSlot", "MulEpoch"}

DivOps == {"Div", "DivSlot", "DivEpoch"}

AddOps == {"Add", "AddSlot", "AddEpoch"}

SubOps == {"Sub", "SubSlot", "SubEpoch"}

ModOps == {"Mod", "ModSlot", "ModEpoch"}

Constructors == {"ToSlot", "ToEpoch"}

Returned(val) == ret.out.kind = "value" /\ ret.out.val = val

Panicked(msg) == ret.out.kind = "panic" /\ ret.out.msg = msg

\* a * b fits in a uint64.
ProductFits(a, b) == b = 0 \/ a <= U64Max \div b

RECURSIVE ProductMod(_, _)
\* a * b modulo 2^64, by doubling.
ProductMod(a, b) == IF b = 0 THEN 0 ELSE (2 * ProductMod(a, b \div 2) + (b % 2) * a) % U64Mod

\* n is the number whose 8 bytes, lowest first, are buf.
IsLittleEndianOf(n, buf) ==
  /\ n \in 0 .. U64Max
  /\ Len(buf) = 8
  /\ \A i \in 1 .. 8 : (n \div (ByteMod ^ (i - 1))) % ByteMod = buf[i]

\* C1: Sub, SubSlot and SubEpoch of Slot and Sub of Epoch panic with "underflow"
\* when x > value and otherwise return exactly value - x, never a wrapped result.
C1_SubUnderflowOrExact ==
  ret.op \in SubOps =>
    IF ret.arg > ret.recv
    THEN Panicked("underflow")
    ELSE Returned(ret.recv - ret.arg)

C1_Witness ==
  /\ ret.op \in SubOps
  /\ ret.arg > ret.recv
  /\ ret.recv > 0
  /\ Panicked("underflow")

\* C2: Div, DivSlot and DivEpoch of Slot and Div of Epoch panic with "divbyzero"
\* when x = 0 and otherwise return the quotient q with q * x <= value < (q + 1) * x.
C2_DivZeroOrQuotient ==
  ret.op \in DivOps =>
    IF ret.arg = 0
    THEN Panicked("divbyzero")
    ELSE /\ ret.out.kind = "value"
         /\ ret.out.val * ret.arg <= ret.recv
         /\ ret.recv < ret.out.val * ret.arg + ret.arg

C2_Witness ==
  /\ ret.op \in DivOps
  /\ ret.arg = 0
  /\ ret.recv > 0
  /\ Panicked("divbyzero")

\* C3: Mod, ModSlot and ModEpoch of Slot and Mod of Epoch with x = 0 fail as Div
\* with x = 0 does, with the "divbyzero" panic of an explicit guard, and with
\* x # 0 return value % x.
C3_ModZeroFailsAsDiv ==
  ret.op \in ModOps =>
    IF ret.arg = 0
    THEN Panicked("divbyzero")
    ELSE Returned(ret.recv % ret.arg)

\* C4: UnmarshalSSZ on a buffer whose length is not 8 returns an error value
\* (no panic) and leaves the receiver as it was; on a buffer of length 8 it
\* returns nil and the receiver is the little-endian value of the bytes.
C4_UnmarshalLength ==
  ret.op = "UnmarshalSSZ" =>
    IF Len(ret.buf) # 8
    THEN /\ ret.out.kind = "error"
         /\ ret.out.want = 8 /\ ret.out.got = Len(ret.buf)
         /\ ret.out.self = ret.recv
    ELSE /\ ret.out.kind = "nil"
         /\ IsLittleEndianOf(ret.out.self, ret.buf)

C4_Witness ==
  /\ ret.op = "UnmarshalSSZ"
  /\ Len(ret.buf) = 9
  /\ ret.out.kind = "error"
  /\ ret.recv > 0
  /\ obj = ret.recv

\* C5: MarshalSSZ returns exactly 8 bytes, which is SizeSSZ, and UnmarshalSSZ of
\* those bytes into any receiver returns nil and leaves the receiver equal to
\* the value that was encoded.
C5_RoundTrip ==
  /\ ret.op = "MarshalSSZ" =>
       /\ ret.out.kind = "bytes"
       /\ Len(ret.out.bytes) = 8
       /\ Len(ret.out.bytes) = (IF ret.typ = "Slot" THEN Slot_SizeSSZ ELSE Epoch_SizeSSZ)
  /\ (ret.op = "UnmarshalSSZ" /\ ret.prev = "MarshalSSZ") =>
       /\ ret.out.kind = "nil"
       /\ ret.out.self = ret.orig

C5_Witness ==
  /\ ret.op = "UnmarshalSSZ"
  /\ ret.prev = "MarshalSSZ"
  /\ ret.orig = 150
  /\ ret.recv = U64Max
  /\ ret.out.self = 150

\* The Mod of the receiver's type.
ModOf(t, x, y) == IF t = "Slot" THEN Slot_Mod(x, y) ELSE Epoch_Mod(x, y)

\* C6: for y # 0, x.Div(y) does not fail, x.Div(y).Mul(y) does not overflow, and
\* x.Div(y).Mul(y).Uint64() + x.Mod(y).Uint64() = x.
C6_DivisionIdentity ==
  /\ (ret.op = "Div" /\ ret.arg # 0) => ret.out.kind = "value"
  /\ (ret.op = "Mul" /\ ret.prev = "Div") =>
       /\ ret.arg # 0
       /\ ProductFits(ret.recv, ret.arg)
       /\ ret.out.kind = "value"
       /\ ModOf(ret.typ, ret.orig, ret.arg).kind = "value"
       /\ ret.out.val + ModOf(ret.typ, ret.orig, ret.arg).val = ret.orig

C6_Witness ==
  /\ ret.op = "Mul"
  /\ ret.prev = "Div"
  /\ ret.orig > ret.arg
  /\ ret.orig % ret.arg # 0
  /\ ret.out.val + ModOf(ret.typ, ret.orig, ret.arg).val = ret.orig

\* C7: Add, AddSlot and AddEpoch of Slot and Add of Epoch panic when value + x
\* exceeds 2^64 - 1, instead of returning the sum wrapped.
C7_AddOverflowPanics ==
  (ret.op \in AddOps /\ ret.recv + ret.arg > U64Max) => ret.out.kind = "panic"

\* C8: Mul, MulSlot and MulEpoch of Slot and Mul of Epoch never fail and return
\* value * x modulo 2^64: the exact product when it fits, the wrapped one otherwise.
C8_MulWraps ==
  ret.op \in MulOps =>
    /\ ret.out.kind = "value"
    /\ ret.out.val = ProductMod(ret.recv, ret.arg)
    /\ ProductFits(ret.recv, ret.arg) => ret.out.val = ret.recv * ret.arg

C8_Witness ==
  /\ ret.op \in MulOps
  /\ ~ProductFits(ret.recv, ret.arg)
  /\ ret.out.kind = "value"
  /\ ret.out.val > 0

\* C9 as stated: every operation, UnmarshalSSZ too, leaves the value it was
\* invoked on unchanged.
C9_NoOperationMutates ==
  (ret.op # "" /\ ret.op \notin Constructors) => ret.out.self = ret.recv

\* C9 as amended: every operation other than UnmarshalSSZ leaves its receiver
\* unchanged (a constructor returns its argument as a new value); UnmarshalSSZ
\* leaves it unchanged when it returns the length error and overwrites it in
\* place with the decoded value when the buffer has length 8.
C9_OnlyUnmarshalMutates ==
  /\ ret.op \in Constructors => ret.out.val = ret.arg /\ obj = ret.arg
  /\ (ret.op # "" /\ ret.op \notin Constructors /\ ret.op # "UnmarshalSSZ") =>
       ret.out.self = ret.recv
  /\ (ret.op = "UnmarshalSSZ" /\ ret.out.kind = "error") => ret.out.self = ret.recv
  /\ (ret.op = "UnmarshalSSZ" /\ ret.out.kind # "error") =>
       ret.out.self = UnmarshallUint64(ret.buf)
  /\ (ret.op # "" /\ ret.op \notin Constructors /\ ret.prev = "") => obj = ret.out.self

C9_Witness ==
  /\ ret.op = "UnmarshalSSZ"
  /\ ret.prev = ""
  /\ ret.out.kind = "nil"
  /\ ret.recv = 100
  /\ obj # ret.recv
  /\ obj = UnmarshallUint64(ret.buf)

\* C10: v.Add(x).Sub(x) never returns a value other than v: Add always returns,
\* and the Sub returns v when v + x <= 2^64 - 1 and otherwise finds the wrapped
\* sum smaller than x and panics with "underflow".
C10_AddThenSub ==
  /\ ret.op = "Add" => ret.out.kind = "value"
  /\ (ret.op = "Sub" /\ ret.prev = "Add") =>
       IF ret.orig + ret.arg <= U64Max
       THEN ret.recv = ret.orig + ret.arg /\ Returned(ret.orig)
       ELSE ret.recv < ret.arg /\ Panicked("underflow")

C10_Witness ==
  /\ ret.op = "Sub"
  /\ ret.prev = "Add"
  /\ ret.orig + ret.arg > U64Max
  /\ ret.orig < U64Max
  /\ Panicked("underflow")

====
